---- MODULE Spec2Model ----
(***************************************************************************)
(* Model of the insurance bot's conversation flow (src/bot.py) and of the  *)
(* helpers of src/utils.py: pricing, quote ids and location parsing.       *)
(*                                                                         *)
(* The dialog is driven by a ConversationHandler: per user it keeps one    *)
(* conversation state (absent = no conversation), and context.user_data    *)
(* is a per-user dictionary that lives for the whole process.  An update   *)
(* is offered to the application's handlers in registration order; the     *)
(* first handler that accepts it runs to completion.                       *)
(*                                                                         *)
(* A text is a sequence of one-character strings, so that int(), lower()   *)
(* and the keyword search are computed character by character.             *)
(***************************************************************************)
EXTENDS Integers, Sequences, FiniteSets, TLC

VARIABLES
    conversations,  \* user -> conversation state kept by the ConversationHandler
    user_data,      \* user -> context.user_data, a dictionary (function on its keys)
    ended,          \* user -> how the user's last conversation ended, "InFlow" inside one (history)
    stored,         \* user -> fields written since 'step' was last set to 'name' (history)
    update,         \* the update handled last
    prompt,         \* the messages sent while handling it, in order
    quote,          \* the last call of QuoteCalculator.calculate_quote and its result
    trace,          \* the updates delivered so far, kept while recording is on (history)
    now,            \* datetime.now(), in whole seconds
    quote_ids,      \* the quote ids of the last two calls of generate_quote_id, oldest first (history)
    parsed_location \* the last call of parse_location and its result

vars == <<conversations, user_data, ended, stored, update, prompt, quote, trace,
          now, quote_ids, parsed_location>>

\* What the dialog never touches: the clock and the results of the helpers
\* of src/utils.py other than the quote.
helpers == <<now, quote_ids, parsed_location>>

----------------------------------------------------------------------------
(* Conversation states, bot.py:32, and the library's END marker.           *)

MAIN_MENU == 0
INSURANCE_TYPE == 1
PERSONAL_INFO == 2
QUOTE_DETAILS == 3
END == -1

Users == {"u1", "u2"}

\* The longest recorded trace.
MaxTrace == 6

\* The ages tried on the quote calculator: -NegAges..MaxAge.
NegAges == 3
MaxAge == 110

\* The clock runs from second 0 to second MaxClock.
MaxClock == 3

\* The longest location text tried on parse_location.
MaxLen == 4

\* A handler that returns nothing leaves the conversation state as it is.
None == <<>>
Return(s) == <<s>>

----------------------------------------------------------------------------
(* Dictionaries: a function whose domain is the set of keys present.       *)

EmptyDict == [k \in {} |-> 0]

Has(d, k) == k \in DOMAIN d

Get(d, k, default) == IF k \in DOMAIN d THEN d[k] ELSE default

Put(d, k, v) == [x \in (DOMAIN d) \cup {k} |-> IF x = k THEN v ELSE d[x]]

----------------------------------------------------------------------------
(* Texts.                                                                  *)

T_JaneDoe == <<"J", "a", "n", "e", " ", "D", "o", "e">>
T_AustinTX == <<"A", "u", "s", "t", "i", "n", ",", " ", "T", "X">>
T_Accident == <<"I", " ", "h", "a", "d", " ", "a", "n", " ", "a", "c", "c", "i", "d", "e", "n", "t">>
T_Price == <<"P", "r", "i", "c", "e", "?">>
T_29 == <<"2", "9">>
T_17 == <<"1", "7">>
T_18 == <<"1", "8">>
T_100 == <<"1", "0", "0">>
T_101 == <<"1", "0", "1">>
T_150 == <<"1", "5", "0">>
T_5_5 == <<"5", "_", "5">>
T_Blank == <<" ", " ">>
T_AustinTXUSA == <<"A", "u", "s", "t", "i", "n", ",", " ", "T", "X", ",", " ", "U", "S", "A">>

\* The texts a user sends in the dialog.  Telegram delivers no empty text
\* message.
Texts == {T_JaneDoe, T_AustinTX, T_29, T_Price}

\* The texts tried at the age step.
AgeTexts == {T_JaneDoe, T_17, T_18, T_29, T_100, T_101, T_150, T_5_5}

UpperCase == <<"A","B","C","D","E","F","G","H","I","J","K","L","M",
               "N","O","P","Q","R","S","T","U","V","W","X","Y","Z">>
LowerCase == <<"a","b","c","d","e","f","g","h","i","j","k","l","m",
               "n","o","p","q","r","s","t","u","v","w","x","y","z">>

\* str.lower()
LowerChar(c) ==
    IF \E i \in 1..Len(UpperCase) : UpperCase[i] = c
    THEN LowerCase[CHOOSE i \in 1..Len(UpperCase) : UpperCase[i] = c]
    ELSE c

Lower(s) == [i \in 1..Len(s) |-> LowerChar(s[i])]

\* word in text: the word occurs as a contiguous substring
Contains(s, w) ==
    \E i \in 1..(Len(s) - Len(w) + 1) : SubSeq(s, i, i + Len(w) - 1) = w

IsSpace(c) == c \in {" ", "\t", "\n"}

RECURSIVE LStrip(_)
LStrip(s) == IF s # <<>> /\ IsSpace(Head(s)) THEN LStrip(Tail(s)) ELSE s

RECURSIVE RStrip(_)
RStrip(s) == IF s # <<>> /\ IsSpace(s[Len(s)]) THEN RStrip(SubSeq(s, 1, Len(s) - 1)) ELSE s

Strip(s) == RStrip(LStrip(s))

Digits == <<"0", "1", "2", "3", "4", "5", "6", "7", "8", "9">>

IsDigit(c) == \E i \in 1..10 : Digits[i] = c

DigitVal(c) == (CHOOSE i \in 1..10 : Digits[i] = c) - 1

\* The digit part of a decimal literal: digits, with single underscores
\* allowed between two digits.
ValidDigits(s) ==
    /\ s # <<>>
    /\ IsDigit(s[1])
    /\ IsDigit(s[Len(s)])
    /\ \A i \in 1..Len(s) : IsDigit(s[i]) \/ s[i] = "_"
    /\ \A i \in 1..(Len(s) - 1) : ~(s[i] = "_" /\ s[i + 1] = "_")

RECURSIVE DigitsValue(_, _)
DigitsValue(s, acc) ==
    IF s = <<>> THEN acc
    ELSE IF Head(s) = "_" THEN DigitsValue(Tail(s), acc)
    ELSE DigitsValue(Tail(s), 10 * acc + DigitVal(Head(s)))

\* int(text): ok is FALSE where Python raises ValueError.
ParseInt(text) ==
    LET t == Strip(text)
        signed == t # <<>> /\ Head(t) \in {"+", "-"}
        body == IF signed THEN Tail(t) ELSE t
        sign == IF signed /\ Head(t) = "-" THEN -1 ELSE 1
    IN  IF ValidDigits(body)
        THEN [ok |-> TRUE, val |-> sign * DigitsValue(body, 0)]
        ELSE [ok |-> FALSE, val |-> 0]

----------------------------------------------------------------------------
(* Pricing inside the dialog: InsuranceBot.generate_quote.                 *)

base_rates == [auto |-> 800, home |-> 1200, health |-> 300, travel |-> 150, business |-> 2000]

DefaultBaseRate == 500

DefaultAge == 30

\* Mutant: the first band ends at 30.
AgeFactor10_Under30(age) ==
    IF age < 30 THEN 13
    ELSE IF age < 35 THEN 10
    ELSE IF age < 55 THEN 9
    ELSE 11

\* The age factor in tenths: 1.3, 1.0, 0.9, 1.1.
AgeFactor10(age) ==
    IF age < 25 THEN 13
    ELSE IF age < 35 THEN 10
    ELSE IF age < 55 THEN 9
    ELSE 11

\* int(base_rate * age_factor).  For each of the six base rates and the four
\* factors the double-precision product truncates to the exact quotient
\* below (800 * 1.3 = 1040.0, 800 * 1.1 = 880.0000000000001, ...).
IntTimesFactor(base_rate, factor10) == (base_rate * factor10) \div 10

\* int(annual / 12) for a non-negative annual figure.
IntDiv12(annual) == annual \div 12

generate_quote(ud, insurance_type) ==
    LET name == Get(ud, "name", <<"C", "u", "s", "t", "o", "m", "e", "r">>)
        age == Get(ud, "age", DefaultAge)
        location == Get(ud, "location", <<"U", "n", "k", "n", "o", "w", "n">>)
        base_rate == IF insurance_type \in DOMAIN base_rates
                     THEN base_rates[insurance_type] ELSE DefaultBaseRate
        estimated_annual == IntTimesFactor(base_rate, AgeFactor10(age))
        estimated_monthly == IntDiv12(estimated_annual)
    IN  [name |-> name, location |-> location, age |-> age,
         monthly |-> estimated_monthly, annual |-> estimated_annual]

----------------------------------------------------------------------------
(* The handlers as functions of the user's dictionary and the update's     *)
(* payload: the value returned to the ConversationHandler (ret), the       *)
(* dictionary afterwards, and the messages sent (out).                     *)

insurance_types == {"auto", "home", "health", "travel", "business"}

\* The fields the personal-info phase collects.
Fields == {"name", "age", "location"}

Msg(kind) == [kind |-> kind]

\* Mutant: the menu is shown but the state returned is INSURANCE_TYPE.
main_menu_WrongState(ud) ==
    [ret |-> Return(INSURANCE_TYPE), user_data |-> ud, out |-> <<Msg("menu")>>]

\* main_menu, also reached by /menu and /quote.
main_menu(ud) ==
    [ret |-> Return(MAIN_MENU), user_data |-> ud, out |-> <<Msg("menu")>>]

\* start_command: the welcome text, then main_menu.
start_command(ud) ==
    LET r == main_menu(ud)
    IN  [ret |-> r.ret, user_data |-> r.user_data, out |-> <<Msg("welcome")>> \o r.out]

\* Mutant: "questions" is handled like an insurance type.
main_menu_handler_QuestionsAsType(ud, data) ==
    IF data \in insurance_types \cup {"questions"}
    THEN [ret |-> Return(INSURANCE_TYPE),
          user_data |-> Put(ud, "insurance_type", data),
          out |-> <<[kind |-> "actions", insurance_type |-> data]>>]
    ELSE [ret |-> None, user_data |-> ud, out |-> <<>>]

\* Mutant: an insurance type already in the dictionary is kept.
main_menu_handler_KeepType(ud, data) ==
    IF data \in insurance_types
    THEN [ret |-> Return(INSURANCE_TYPE),
          user_data |-> IF Has(ud, "insurance_type") THEN ud
                        ELSE Put(ud, "insurance_type", data),
          out |-> <<[kind |-> "actions", insurance_type |-> data]>>]
    ELSE IF data = "questions"
    THEN [ret |-> Return(END), user_data |-> ud, out |-> <<Msg("ask_question")>>]
    ELSE [ret |-> None, user_data |-> ud, out |-> <<>>]

\* Mutant: a selection that is neither a type nor "questions" ends the
\* conversation.
main_menu_handler_UnknownEnds(ud, data) ==
    IF data \in insurance_types
    THEN [ret |-> Return(INSURANCE_TYPE),
          user_data |-> Put(ud, "insurance_type", data),
          out |-> <<[kind |-> "actions", insurance_type |-> data]>>]
    ELSE IF data = "questions"
    THEN [ret |-> Return(END), user_data |-> ud, out |-> <<Msg("ask_question")>>]
    ELSE [ret |-> Return(END), user_data |-> ud, out |-> <<>>]

main_menu_handler(ud, data) ==
    IF data \in insurance_types
    THEN [ret |-> Return(INSURANCE_TYPE),
          user_data |-> Put(ud, "insurance_type", data),
          out |-> <<[kind |-> "actions", insurance_type |-> data]>>]
    ELSE IF data = "questions"
    THEN [ret |-> Return(END), user_data |-> ud, out |-> <<Msg("ask_question")>>]
    ELSE [ret |-> None, user_data |-> ud, out |-> <<>>]

\* get_insurance_info: the text for a known type, else "not available".
get_insurance_info(insurance_type) ==
    IF insurance_type \in insurance_types
    THEN [kind |-> "info", insurance_type |-> insurance_type]
    ELSE Msg("info_not_available")

\* Mutant: get-quote opens the personal-info step without setting 'step'.
insurance_type_handler_NoStep(ud, data) ==
    IF data = "get_quote"
    THEN [ret |-> Return(PERSONAL_INFO), user_data |-> ud, out |-> <<Msg("ask_name")>>]
    ELSE IF data = "back_menu"
    THEN main_menu(ud)
    ELSE [ret |-> None, user_data |-> ud,
          out |-> IF data = "learn_more"
                  THEN <<get_insurance_info(Get(ud, "insurance_type", "insurance"))>>
                  ELSE IF data = "talk_agent" THEN <<Msg("agent_contact")>> ELSE <<>>]

\* Mutant: get-quote resumes at the step left over from an earlier flow.
insurance_type_handler_KeepStep(ud, data) ==
    IF data = "get_quote"
    THEN [ret |-> Return(PERSONAL_INFO),
          user_data |-> IF Has(ud, "step") THEN ud ELSE Put(ud, "step", "name"),
          out |-> <<Msg("ask_name")>>]
    ELSE IF data = "back_menu"
    THEN main_menu(ud)
    ELSE [ret |-> None, user_data |-> ud,
          out |-> IF data = "learn_more"
                  THEN <<get_insurance_info(Get(ud, "insurance_type", "insurance"))>>
                  ELSE IF data = "talk_agent" THEN <<Msg("agent_contact")>> ELSE <<>>]

\* Mutant: talk-to-agent returns to the main menu.
insurance_type_handler_AgentToMenu(ud, data) ==
    IF data = "get_quote"
    THEN [ret |-> Return(PERSONAL_INFO),
          user_data |-> Put(ud, "step", "name"),
          out |-> <<Msg("ask_name")>>]
    ELSE IF data = "learn_more"
    THEN [ret |-> None, user_data |-> ud,
          out |-> <<get_insurance_info(Get(ud, "insurance_type", "insurance"))>>]
    ELSE IF data \in {"talk_agent", "back_menu"}
    THEN main_menu(ud)
    ELSE [ret |-> None, user_data |-> ud, out |-> <<>>]

insurance_type_handler(ud, data) ==
    IF data = "get_quote"
    THEN [ret |-> Return(PERSONAL_INFO),
          user_data |-> Put(ud, "step", "name"),
          out |-> <<Msg("ask_name")>>]
    ELSE IF data = "learn_more"
    THEN [ret |-> None, user_data |-> ud,
          out |-> <<get_insurance_info(Get(ud, "insurance_type", "insurance"))>>]
    ELSE IF data = "talk_agent"
    THEN [ret |-> None, user_data |-> ud, out |-> <<Msg("agent_contact")>>]
    ELSE IF data = "back_menu"
    THEN main_menu(ud)
    ELSE IF data = "back_type"
    THEN main_menu_handler(ud, data)
    ELSE [ret |-> None, user_data |-> ud, out |-> <<>>]

\* Mutant: the upper bound of the age is not checked.
AgeStep_NoUpperBound(ud, user_input) ==
    LET parsed == ParseInt(user_input)
    IN  IF ~parsed.ok
        THEN [user_data |-> ud, out |-> <<Msg("age_numbers_only")>>, wrote |-> {}]
        ELSE IF 18 <= parsed.val
        THEN [user_data |-> Put(Put(ud, "age", parsed.val), "step", "location"),
              out |-> <<Msg("ask_location")>>, wrote |-> {"age"}]
        ELSE [user_data |-> ud, out |-> <<Msg("age_out_of_range")>>, wrote |-> {}]

\* Mutant: both bounds of the age are exclusive.
AgeStep_Exclusive(ud, user_input) ==
    LET parsed == ParseInt(user_input)
    IN  IF ~parsed.ok
        THEN [user_data |-> ud, out |-> <<Msg("age_numbers_only")>>, wrote |-> {}]
        ELSE IF 18 < parsed.val /\ parsed.val < 100
        THEN [user_data |-> Put(Put(ud, "age", parsed.val), "step", "location"),
              out |-> <<Msg("ask_location")>>, wrote |-> {"age"}]
        ELSE [user_data |-> ud, out |-> <<Msg("age_out_of_range")>>, wrote |-> {}]

\* The age step of personal_info_handler (bot.py:305-321).
AgeStep(ud, user_input) ==
    LET parsed == ParseInt(user_input)
    IN  IF ~parsed.ok
        THEN [user_data |-> ud, out |-> <<Msg("age_numbers_only")>>, wrote |-> {}]
        ELSE IF 18 <= parsed.val /\ parsed.val <= 100
        THEN [user_data |-> Put(Put(ud, "age", parsed.val), "step", "location"),
              out |-> <<Msg("ask_location")>>, wrote |-> {"age"}]
        ELSE [user_data |-> ud, out |-> <<Msg("age_out_of_range")>>, wrote |-> {}]

\* Mutant: after the name the location is asked for.
personal_info_handler_SkipAge(ud, user_input) ==
    LET step == Get(ud, "step", "")
    IN  IF step = "name"
        THEN [ret |-> Return(PERSONAL_INFO),
              user_data |-> Put(Put(ud, "name", user_input), "step", "location"),
              out |-> <<Msg("ask_location")>>,
              wrote |-> {"name"}]
        ELSE IF step = "age"
        THEN [ret |-> Return(PERSONAL_INFO)] @@ AgeStep(ud, user_input)
        ELSE IF step = "location"
        THEN LET ud2 == Put(ud, "location", user_input)
                 insurance_type == Get(ud2, "insurance_type", "insurance")
             IN  [ret |-> Return(END),
                  user_data |-> ud2,
                  out |-> <<[kind |-> "quote", insurance_type |-> insurance_type,
                             quote |-> generate_quote(ud2, insurance_type)]>>,
                  wrote |-> {"location"}]
        ELSE [ret |-> Return(PERSONAL_INFO), user_data |-> ud, out |-> <<>>, wrote |-> {}]

\* Mutant: a name already in the dictionary is kept.
personal_info_handler_KeepName(ud, user_input) ==
    LET step == Get(ud, "step", "")
    IN  IF step = "name"
        THEN [ret |-> Return(PERSONAL_INFO),
              user_data |-> Put(IF Has(ud, "name") THEN ud ELSE Put(ud, "name", user_input),
                                "step", "age"),
              out |-> <<[kind |-> "ask_age", name |-> user_input]>>,
              wrote |-> {"name"}]
        ELSE IF step = "age"
        THEN [ret |-> Return(PERSONAL_INFO)] @@ AgeStep(ud, user_input)
        ELSE IF step = "location"
        THEN LET ud2 == Put(ud, "location", user_input)
                 insurance_type == Get(ud2, "insurance_type", "insurance")
             IN  [ret |-> Return(END),
                  user_data |-> ud2,
                  out |-> <<[kind |-> "quote", insurance_type |-> insurance_type,
                             quote |-> generate_quote(ud2, insurance_type)]>>,
                  wrote |-> {"location"}]
        ELSE [ret |-> Return(PERSONAL_INFO), user_data |-> ud, out |-> <<>>, wrote |-> {}]

\* Mutant: an accepted age is stored but the step stays 'age'.
personal_info_handler_StuckAtAge(ud, user_input) ==
    LET step == Get(ud, "step", "")
    IN  IF step = "name"
        THEN [ret |-> Return(PERSONAL_INFO),
              user_data |-> Put(Put(ud, "name", user_input), "step", "age"),
              out |-> <<[kind |-> "ask_age", name |-> user_input]>>,
              wrote |-> {"name"}]
        ELSE IF step = "age"
        THEN LET r == AgeStep(ud, user_input)
             IN  [ret |-> Return(PERSONAL_INFO),
                  user_data |-> Put(r.user_data, "step", "age"),
                  out |-> r.out, wrote |-> r.wrote]
        ELSE IF step = "location"
        THEN LET ud2 == Put(ud, "location", user_input)
                 insurance_type == Get(ud2, "insurance_type", "insurance")
             IN  [ret |-> Return(END),
                  user_data |-> ud2,
                  out |-> <<[kind |-> "quote", insurance_type |-> insurance_type,
                             quote |-> generate_quote(ud2, insurance_type)]>>,
                  wrote |-> {"location"}]
        ELSE [ret |-> Return(PERSONAL_INFO), user_data |-> ud, out |-> <<>>, wrote |-> {}]

\* wrote: the fields of the user's data this call has assigned.
personal_info_handler(ud, user_input) ==
    LET step == Get(ud, "step", "")
    IN  IF step = "name"
        THEN [ret |-> Return(PERSONAL_INFO),
              user_data |-> Put(Put(ud, "name", user_input), "step", "age"),
              out |-> <<[kind |-> "ask_age", name |-> user_input]>>,
              wrote |-> {"name"}]
        ELSE IF step = "age"
        THEN [ret |-> Return(PERSONAL_INFO)] @@ AgeStep(ud, user_input)
        ELSE IF step = "location"
        THEN LET ud2 == Put(ud, "location", user_input)
                 insurance_type == Get(ud2, "insurance_type", "insurance")
             IN  [ret |-> Return(END),
                  user_data |-> ud2,
                  out |-> <<[kind |-> "quote", insurance_type |-> insurance_type,
                             quote |-> generate_quote(ud2, insurance_type)]>>,
                  wrote |-> {"location"}]
        ELSE [ret |-> Return(PERSONAL_INFO), user_data |-> ud, out |-> <<>>, wrote |-> {}]

quote_words == {<<"q", "u", "o", "t", "e">>, <<"p", "r", "i", "c", "e">>,
                <<"c", "o", "s", "t">>, <<"r", "a", "t", "e">>}
claim_words == {<<"c", "l", "a", "i", "m">>, <<"a", "c", "c", "i", "d", "e", "n", "t">>,
                <<"d", "a", "m", "a", "g", "e">>}
help_words == {<<"h", "e", "l", "p">>, <<"s", "u", "p", "p", "o", "r", "t">>,
               <<"q", "u", "e", "s", "t", "i", "o", "n">>}

\* Mutant: the claim keywords are looked for before the quote keywords.
handle_message_ClaimFirst(ud, text) ==
    LET message_text == Lower(text)
    IN  IF \E word \in claim_words : Contains(message_text, word)
        THEN [user_data |-> ud, out |-> <<Msg("claims_process")>>]
        ELSE IF \E word \in quote_words : Contains(message_text, word)
        THEN [user_data |-> ud, out |-> <<Msg("quote_redirect")>> \o main_menu(ud).out]
        ELSE IF \E word \in help_words : Contains(message_text, word)
        THEN [user_data |-> ud, out |-> <<Msg("help")>>]
        ELSE [user_data |-> ud, out |-> <<Msg("fallback")>>]

\* handle_message is registered outside the ConversationHandler: whatever it
\* returns (the quote branch returns main_menu's MAIN_MENU) is discarded.
handle_message(ud, text) ==
    LET message_text == Lower(text)
    IN  IF \E word \in quote_words : Contains(message_text, word)
        THEN [user_data |-> ud, out |-> <<Msg("quote_redirect")>> \o main_menu(ud).out]
        ELSE IF \E word \in claim_words : Contains(message_text, word)
        THEN [user_data |-> ud, out |-> <<Msg("claims_process")>>]
        ELSE IF \E word \in help_words : Contains(message_text, word)
        THEN [user_data |-> ud, out |-> <<Msg("help")>>]
        ELSE [user_data |-> ud, out |-> <<Msg("fallback")>>]

\* Mutant: the acknowledgment is sent but END is not returned.
cancel_NoReturn(ud) ==
    [ret |-> None, user_data |-> ud, out |-> <<Msg("cancelled")>>]

cancel(ud) ==
    [ret |-> Return(END), user_data |-> ud, out |-> <<Msg("cancelled")>>]

----------------------------------------------------------------------------
(* The ConversationHandler: entry points are tried only while the user has *)
(* no conversation; in a conversation the handlers of its state are tried, *)
(* then the fallbacks.  A returned END removes the conversation, a missing *)
(* return value keeps the state.                                           *)

NewState(old, ret) == IF ret = None THEN old ELSE ret[1]

Commands == {"start", "quote", "menu", "help", "cancel"}

CallbackData == insurance_types \cup
                {"questions", "get_quote", "learn_more", "talk_agent",
                 "back_menu", "back_type", "other"}

Command(u, c) == [kind |-> "command", data |-> c, user |-> u]
Callback(u, d) == [kind |-> "callback", data |-> d, user |-> u]
Text(u, t) == [kind |-> "text", data |-> t, user |-> u]

\* The update handled and the messages sent for it.  While recording, the
\* update is appended to the trace, which holds at most MaxTrace updates.
Handled(upd, out) ==
    /\ update' = upd
    /\ prompt' = out
    /\ IF trace.recording
       THEN /\ Len(trace.updates) < MaxTrace
            /\ trace' = [trace EXCEPT !.updates = Append(@, upd)]
       ELSE UNCHANGED trace

\* Mutant: the handlers' dictionary is one object shared by all users.
Converse_SharedData(u, upd, r, how, wrote) ==
    /\ conversations' = [conversations EXCEPT ![u] = NewState(@, r.ret)]
    /\ user_data' = [v \in Users |-> r.user_data]
    /\ ended' = [ended EXCEPT ![u] = IF NewState(conversations[u], r.ret) = END
                                     THEN how ELSE "InFlow"]
    /\ stored' = [stored EXCEPT ![u] = wrote]
    /\ Handled(upd, r.out)
    /\ UNCHANGED <<quote, helpers>>

\* The conversation of user u moves as the handler's result r says.
Converse(u, upd, r, how, wrote) ==
    /\ conversations' = [conversations EXCEPT ![u] = NewState(@, r.ret)]
    /\ user_data' = [user_data EXCEPT ![u] = r.user_data]
    /\ ended' = [ended EXCEPT ![u] = IF NewState(conversations[u], r.ret) = END
                                     THEN how ELSE "InFlow"]
    /\ stored' = [stored EXCEPT ![u] = wrote]
    /\ Handled(upd, r.out)
    /\ UNCHANGED <<quote, helpers>>

Init ==
    /\ conversations = [u \in Users |-> END]
    /\ user_data = [u \in Users |-> EmptyDict]
    /\ ended = [u \in Users |-> "Idle"]
    /\ stored = [u \in Users |-> {}]
    /\ update = [kind |-> "none", data |-> "", user |-> ""]
    /\ prompt = <<>>
    /\ quote = [age |-> <<>>, insurance_type |-> "", annual_premium |-> 0, monthly_premium |-> 0]
    /\ trace = [recording |-> FALSE, updates |-> <<>>]
    /\ now = 0
    /\ quote_ids = <<>>
    /\ parsed_location = [location |-> <<>>, city |-> <<>>, state |-> <<>>]

\* /help: the help CommandHandler is registered first and takes the update
\* in every state.
HelpCommand(u) ==
    /\ Handled(Command(u, "help"), <<Msg("help")>>)
    /\ UNCHANGED <<conversations, user_data, ended, stored, quote, helpers>>

\* Entry points /start, /quote, /menu.
StartCommand(u) ==
    /\ conversations[u] = END
    /\ Converse(u, Command(u, "start"), start_command(user_data[u]), ended[u], stored[u])

GetQuoteCommand(u) ==
    /\ conversations[u] = END
    /\ Converse(u, Command(u, "quote"), main_menu(user_data[u]), ended[u], stored[u])

MenuCommand(u) ==
    /\ conversations[u] = END
    /\ Converse(u, Command(u, "menu"), main_menu(user_data[u]), ended[u], stored[u])

MainMenuHandler(u, data) ==
    /\ conversations[u] = MAIN_MENU
    /\ Converse(u, Callback(u, data), main_menu_handler(user_data[u], data),
                "EndedEarly", stored[u])

InsuranceTypeHandler(u, data) ==
    /\ conversations[u] = INSURANCE_TYPE
    /\ LET r == insurance_type_handler(user_data[u], data)
       IN  Converse(u, Callback(u, data), r, "EndedEarly",
                    IF data = "get_quote" THEN {} ELSE stored[u])

PersonalInfoHandler(u, text) ==
    /\ conversations[u] = PERSONAL_INFO
    /\ LET r == personal_info_handler(user_data[u], text)
       IN  Converse(u, Text(u, text), r, "Completed", stored[u] \cup r.wrote)

\* /cancel is a fallback: it is tried only inside a conversation.
Cancel(u) ==
    /\ conversations[u] # END
    /\ Converse(u, Command(u, "cancel"), cancel(user_data[u]), "Cancelled", stored[u])

\* Mutant: the state returned by handle_message's quote branch is taken as
\* the user's conversation state.
HandleMessage_Reenter(u, text) ==
    /\ conversations[u] # PERSONAL_INFO
    /\ LET r == handle_message(user_data[u], text)
           menu == r.out[1].kind = "quote_redirect"
       IN  /\ user_data' = [user_data EXCEPT ![u] = r.user_data]
           /\ conversations' = [conversations EXCEPT ![u] = IF menu THEN MAIN_MENU ELSE @]
           /\ ended' = [ended EXCEPT ![u] = IF menu THEN "InFlow" ELSE @]
           /\ Handled(Text(u, text), r.out)
    /\ UNCHANGED <<stored, quote, helpers>>

\* Text that the ConversationHandler does not take reaches handle_message.
HandleMessage(u, text) ==
    /\ conversations[u] # PERSONAL_INFO
    /\ LET r == handle_message(user_data[u], text)
       IN  /\ user_data' = [user_data EXCEPT ![u] = r.user_data]
           /\ Handled(Text(u, text), r.out)
    /\ UNCHANGED <<conversations, ended, stored, quote, helpers>>

\* Commands no handler accepts: an entry command inside a conversation,
\* /cancel outside one.
UnhandledCommand(u, c) ==
    /\ IF c = "cancel" THEN conversations[u] = END
       ELSE c # "help" /\ conversations[u] # END
    /\ Handled(Command(u, c), <<>>)
    /\ UNCHANGED <<conversations, user_data, ended, stored, quote, helpers>>

\* Mutant: button_handler is registered for the whole application, so a
\* button press outside MAIN_MENU and INSURANCE_TYPE runs main_menu_handler;
\* the state it returns is discarded.
UnhandledCallback_ButtonHandler(u, data) ==
    /\ conversations[u] # MAIN_MENU
    /\ conversations[u] # INSURANCE_TYPE
    /\ LET r == main_menu_handler(user_data[u], data)
       IN  /\ user_data' = [user_data EXCEPT ![u] = r.user_data]
           /\ Handled(Callback(u, data), r.out)
    /\ UNCHANGED <<conversations, ended, stored, quote, helpers>>

\* A button press where no CallbackQueryHandler is active.
UnhandledCallback(u, data) ==
    /\ conversations[u] # MAIN_MENU
    /\ conversations[u] # INSURANCE_TYPE
    /\ Handled(Callback(u, data), <<>>)
    /\ UNCHANGED <<conversations, user_data, ended, stored, quote, helpers>>

----------------------------------------------------------------------------
(* src/utils.py: calculate_age_factor and QuoteCalculator.                  *)

BASE_RATES == [auto |-> 800, home |-> 1200, health |-> 300, travel |-> 150, business |-> 2000]

\* Mutant: the first band includes 25.
calculate_age_factor_Le25(age) ==
    IF age <= 25 THEN 13
    ELSE IF age < 35 THEN 10
    ELSE IF age < 55 THEN 9
    ELSE 11

\* The factor in tenths: 1.3, 1.0, 0.9, 1.1.
calculate_age_factor(age) ==
    IF age < 25 THEN 13
    ELSE IF age < 35 THEN 10
    ELSE IF age < 55 THEN 9
    ELSE 11

calculate_quote(insurance_type, ud) ==
    LET base_rate == IF insurance_type \in DOMAIN BASE_RATES
                     THEN BASE_RATES[insurance_type] ELSE 500
        age == Get(ud, "age", 30)
        age_factor == calculate_age_factor(age)
        annual_premium == IntTimesFactor(base_rate, age_factor)
        monthly_premium == IntDiv12(annual_premium)
    IN  [insurance_type |-> insurance_type,
         annual_premium |-> annual_premium,
         monthly_premium |-> monthly_premium]

\* generate_quote_id: "QT" and the local time formatted to the second,
\* %Y%m%d%H%M%S.  The formatted time is kept as the second t itself: two
\* calls get the same text exactly when they read the same second.
generate_quote_id(t) == <<"QT", t>>

\* A call of calculate_quote; the age passed is kept as <<age>>, or <<>> when
\* the dictionary has none.  The quote id is generated during the call.
CalculateQuote(insurance_type, ud) ==
    /\ LET q == calculate_quote(insurance_type, ud)
       IN  quote' = [age |-> IF Has(ud, "age") THEN <<ud["age"]>> ELSE <<>>,
                     insurance_type |-> q.insurance_type,
                     annual_premium |-> q.annual_premium,
                     monthly_premium |-> q.monthly_premium]
    /\ LET quote_id == generate_quote_id(now)
       IN  quote_ids' = IF Len(quote_ids) < 2
                        THEN Append(quote_ids, quote_id)
                        ELSE <<quote_ids[2], quote_id>>
    /\ UNCHANGED <<conversations, user_data, ended, stored, update, prompt, trace,
                   now, parsed_location>>

\* The clock moves on by a second.
Tick ==
    /\ now < MaxClock
    /\ now' = now + 1
    /\ UNCHANGED <<conversations, user_data, ended, stored, update, prompt, quote,
                   trace, quote_ids, parsed_location>>

\* str.split(','): the pieces between the commas, at least one.
RECURSIVE Split(_, _)
Split(s, acc) ==
    IF s = <<>> THEN <<acc>>
    ELSE IF Head(s) = "," THEN <<acc>> \o Split(Tail(s), <<>>)
    ELSE Split(Tail(s), Append(acc, Head(s)))

\* Mutant: the text is split at its first comma only.
parse_location_FirstComma(location) ==
    IF \E i \in 1..Len(location) : location[i] = ","
    THEN LET i == CHOOSE k \in 1..Len(location) :
                      /\ location[k] = ","
                      /\ \A j \in 1..(k - 1) : location[j] # ","
         IN  [city |-> Strip(SubSeq(location, 1, i - 1)),
              state |-> Strip(SubSeq(location, i + 1, Len(location)))]
    ELSE [city |-> location, state |-> <<>>]

parse_location(location) ==
    LET pieces == Split(location, <<>>)
        parts == [i \in 1..Len(pieces) |-> Strip(pieces[i])]
    IN  IF Len(parts) >= 2
        THEN [city |-> parts[1], state |-> parts[2]]
        ELSE [city |-> location, state |-> <<>>]

\* A call of parse_location.
ParseLocation(location) ==
    /\ LET r == parse_location(location)
       IN  parsed_location' = [location |-> location, city |-> r.city, state |-> r.state]
    /\ UNCHANGED <<conversations, user_data, ended, stored, update, prompt, quote,
                   trace, now, quote_ids>>

\* One update of user u, its text drawn from T.
Deliver(u, T) ==
    \/ HelpCommand(u)
    \/ StartCommand(u)
    \/ GetQuoteCommand(u)
    \/ MenuCommand(u)
    \/ \E data \in CallbackData : MainMenuHandler(u, data)
    \/ \E data \in CallbackData : InsuranceTypeHandler(u, data)
    \/ \E text \in T : PersonalInfoHandler(u, text)
    \/ Cancel(u)
    \/ \E text \in T : HandleMessage(u, text)
    \/ \E c \in Commands : UnhandledCommand(u, c)
    \/ \E data \in CallbackData : UnhandledCallback(u, data)

\* One user's dialog, every kind of update.
Next == Deliver("u1", Texts)

Spec == Init /\ [][Next]_vars

\* One user's way through the quote flow, with the texts of AgeTexts.
NextAge ==
    \/ StartCommand("u1")
    \/ MainMenuHandler("u1", "auto")
    \/ InsuranceTypeHandler("u1", "get_quote")
    \/ \E text \in AgeTexts : PersonalInfoHandler("u1", text)
    \/ Cancel("u1")

SpecAge == Init /\ [][NextAge]_vars

\* Every sequence of at most MaxTrace updates made of the six updates of
\* scenario A, recorded in the trace.
InitTrace ==
    /\ conversations = [u \in Users |-> END]
    /\ user_data = [u \in Users |-> EmptyDict]
    /\ ended = [u \in Users |-> "Idle"]
    /\ stored = [u \in Users |-> {}]
    /\ update = [kind |-> "none", data |-> "", user |-> ""]
    /\ prompt = <<>>
    /\ quote = [age |-> <<>>, insurance_type |-> "", annual_premium |-> 0, monthly_premium |-> 0]
    /\ trace = [recording |-> TRUE, updates |-> <<>>]
    /\ now = 0
    /\ quote_ids = <<>>
    /\ parsed_location = [location |-> <<>>, city |-> <<>>, state |-> <<>>]

ScenarioTexts == {T_JaneDoe, T_29, T_AustinTX}

ScenarioButtons == {"auto", "get_quote"}

NextTrace ==
    \/ StartCommand("u1")
    \/ \E data \in ScenarioButtons : MainMenuHandler("u1", data)
    \/ \E data \in ScenarioButtons : InsuranceTypeHandler("u1", data)
    \/ \E text \in ScenarioTexts : PersonalInfoHandler("u1", text)
    \/ \E text \in ScenarioTexts : HandleMessage("u1", text)
    \/ UnhandledCommand("u1", "start")
    \/ \E data \in ScenarioButtons : UnhandledCallback("u1", data)

SpecTrace == InitTrace /\ [][NextTrace]_vars

\* Calls of QuoteCalculator.calculate_quote with every insurance type and
\* every age of QuoteAges, and with no age.
QuoteTypes == insurance_types \cup {"questions", "pet"}

QuoteAges == (0 - NegAges)..MaxAge

QuoteUserData == {EmptyDict} \cup {[k \in {"age"} |-> a] : a \in QuoteAges}

NextCalc == \E insurance_type \in QuoteTypes, ud \in QuoteUserData : CalculateQuote(insurance_type, ud)

SpecCalc == Init /\ [][NextCalc]_vars

\* Two users, each on their way through the quote flow, their updates
\* interleaved in every order.
TwoTexts == {T_18, T_29}

NextTwo ==
    \/ \E u \in Users : StartCommand(u)
    \/ \E u \in Users, data \in {"auto", "home"} : MainMenuHandler(u, data)
    \/ \E u \in Users : InsuranceTypeHandler(u, "get_quote")
    \/ \E u \in Users, text \in TwoTexts : PersonalInfoHandler(u, text)

SpecTwo == Init /\ [][NextTwo]_vars

\* Free text in every state of the dialog.  The vocabulary has every keyword
\* of handle_message ("rate" inside "separate", "price" capitalised) and a
\* word that is no keyword; the texts are its words, and the two-word phrases
\* made of two words of each list and the word that is no keyword.
Vocabulary ==
    {<<"q", "u", "o", "t", "e">>, <<"P", "r", "i", "c", "e">>, <<"c", "o", "s", "t">>,
     <<"s", "e", "p", "a", "r", "a", "t", "e">>,
     <<"c", "l", "a", "i", "m">>, <<"a", "c", "c", "i", "d", "e", "n", "t">>,
     <<"d", "a", "m", "a", "g", "e">>,
     <<"h", "e", "l", "p">>, <<"s", "u", "p", "p", "o", "r", "t">>,
     <<"q", "u", "e", "s", "t", "i", "o", "n">>,
     <<"h", "e", "l", "l", "o">>}

PhraseWords ==
    {<<"q", "u", "o", "t", "e">>, <<"s", "e", "p", "a", "r", "a", "t", "e">>,
     <<"c", "l", "a", "i", "m">>, <<"a", "c", "c", "i", "d", "e", "n", "t">>,
     <<"h", "e", "l", "p">>, <<"q", "u", "e", "s", "t", "i", "o", "n">>,
     <<"h", "e", "l", "l", "o">>}

Phrases == {p \o <<" ">> \o w : p \in PhraseWords, w \in PhraseWords}

FreeTexts == Vocabulary \cup Phrases \cup {T_Accident}

NextText ==
    \/ StartCommand("u1")
    \/ \E data \in {"auto", "questions"} : MainMenuHandler("u1", data)
    \/ InsuranceTypeHandler("u1", "get_quote")
    \/ PersonalInfoHandler("u1", T_29)
    \/ Cancel("u1")
    \/ \E text \in FreeTexts : HandleMessage("u1", text)

SpecText == Init /\ [][NextText]_vars

\* Calls of calculate_quote while the clock runs.
ClockUserData == {EmptyDict, [k \in {"age"} |-> 29]}

NextClock ==
    \/ Tick
    \/ \E insurance_type \in {"auto", "pet"}, ud \in ClockUserData :
           CalculateQuote(insurance_type, ud)

SpecClock == Init /\ [][NextClock]_vars

\* One user's quote flows, one after the other, while the clock runs.
FlowTexts == {T_JaneDoe, T_Blank, T_18, T_29}

NextFlow ==
    \/ StartCommand("u1")
    \/ \E data \in {"auto", "home"} : MainMenuHandler("u1", data)
    \/ \E data \in {"get_quote", "back_menu"} : InsuranceTypeHandler("u1", data)
    \/ \E text \in FlowTexts : PersonalInfoHandler("u1", text)
    \/ Cancel("u1")
    \/ Tick

SpecFlow == Init /\ [][NextFlow]_vars

\* One user's dialog where the user, at every step of the personal-info
\* phase, eventually sends a text the step accepts: the step moves on or the
\* conversation ends.  Texts the age step rejects may come any number of
\* times before.
LiveTexts == {T_JaneDoe, T_17, T_29}

NextLive ==
    \/ StartCommand("u1")
    \/ \E data \in {"auto", "questions"} : MainMenuHandler("u1", data)
    \/ \E data \in {"get_quote", "learn_more", "back_menu"} : InsuranceTypeHandler("u1", data)
    \/ \E text \in LiveTexts : PersonalInfoHandler("u1", text)
    \/ Cancel("u1")

AcceptedInput(u) ==
    \E text \in LiveTexts :
        /\ PersonalInfoHandler(u, text)
        /\ \/ Get(user_data'[u], "step", "") # Get(user_data[u], "step", "")
           \/ conversations'[u] = END

SpecLive == Init /\ [][NextLive]_vars /\ WF_vars(AcceptedInput("u1"))

\* A user's later flows.  The start is the state in which scenario A ends:
\* the auto quote for "Jane Doe", 29, "Austin, TX" has been sent and these
\* answers are still in the user's data.  Every category and text of the
\* later flows differs from them.
ScenarioAResult ==
    LET d1 == main_menu_handler(EmptyDict, "auto").user_data
        d2 == insurance_type_handler(d1, "get_quote").user_data
        d3 == personal_info_handler(d2, T_JaneDoe).user_data
        d4 == personal_info_handler(d3, T_29).user_data
    IN  personal_info_handler(d4, T_AustinTX)

InitSecond ==
    /\ conversations = [u \in Users |-> END]
    /\ user_data = [u \in Users |-> IF u = "u1" THEN ScenarioAResult.user_data ELSE EmptyDict]
    /\ ended = [u \in Users |-> IF u = "u1" THEN "Completed" ELSE "Idle"]
    /\ stored = [u \in Users |-> IF u = "u1" THEN Fields ELSE {}]
    /\ update = Text("u1", T_AustinTX)
    /\ prompt = ScenarioAResult.out
    /\ quote = [age |-> <<>>, insurance_type |-> "", annual_premium |-> 0, monthly_premium |-> 0]
    /\ trace = [recording |-> FALSE, updates |-> <<>>]
    /\ now = 0
    /\ quote_ids = <<>>
    /\ parsed_location = [location |-> <<>>, city |-> <<>>, state |-> <<>>]

SecondTexts == {T_Price, T_18}

NextSecond ==
    \/ StartCommand("u1")
    \/ \E data \in {"home", "travel"} : MainMenuHandler("u1", data)
    \/ \E data \in {"get_quote", "back_menu"} : InsuranceTypeHandler("u1", data)
    \/ \E text \in SecondTexts : PersonalInfoHandler("u1", text)
    \/ Cancel("u1")

SpecSecond == InitSecond /\ [][NextSecond]_vars

\* Calls of parse_location with every text of at most MaxLen characters
\* drawn from a letter, the comma and the blank.
LocationChars == {"a", ",", " "}

Locations ==
    UNION {[1..n -> LocationChars] : n \in 0..MaxLen} \cup {T_AustinTX, T_AustinTXUSA}

NextLoc == \E location \in Locations : ParseLocation(location)

SpecLoc == Init /\ [][NextLoc]_vars

----------------------------------------------------------------------------
(* The states of the dialog as the specification names them.               *)

currentState(u) ==
    IF conversations[u] = MAIN_MENU THEN "MainMenu"
    ELSE IF conversations[u] = INSURANCE_TYPE THEN "CategoryActions"
    ELSE IF conversations[u] \in {PERSONAL_INFO, QUOTE_DETAILS} THEN "CollectingInfo"
    ELSE ended[u]

Terminal(u) == currentState(u) \in {"Completed", "Cancelled", "EndedEarly"}

IsStartFlow(upd) == upd.kind = "command" /\ upd.data \in {"start", "quote", "menu"}

IsCancel(upd) == upd.kind = "command" /\ upd.data = "cancel"

----------------------------------------------------------------------------
\* C1: a session is in Completed only after name, age and location were all
\* three stored during the CollectingInfo phase of the same flow, i.e. since
\* get-quote set the step to 'name'; no field is missing in Completed.
C1_CompletedHasAllFields ==
    \A u \in Users :
        currentState(u) = "Completed" =>
            /\ stored[u] = Fields
            /\ Fields \subseteq DOMAIN user_data[u]

\* A second flow completed: the fields of the first flow were still in the
\* dictionary, and all three were written again.
C1_Witness ==
    /\ currentState("u1") = "Completed"
    /\ stored["u1"] = Fields
    /\ user_data["u1"]["name"] = T_Price
    /\ user_data["u1"]["location"] = T_JaneDoe
    /\ update = Text("u1", T_JaneDoe)

----------------------------------------------------------------------------
----------------------------------------------------------------------------
\* C3: in Completed, Cancelled or EndedEarly an update either is a StartFlow
\* (/start, /quote, /menu) or leaves the terminal state and the user's data
\* as they are.
C3_TerminalClosure ==
    [][\A u \in Users :
          Terminal(u) =>
              \/ IsStartFlow(update') /\ update'.user = u
              \/ /\ conversations'[u] = conversations[u]
                 /\ ended'[u] = ended[u]
                 /\ user_data'[u] = user_data[u]]_vars

\* A text with a quote keyword was answered in Completed: the menu was shown
\* and the session is still Completed.
C3_Witness ==
    /\ currentState("u1") = "Completed"
    /\ update = Text("u1", T_Price)
    /\ Len(prompt) = 2
    /\ prompt[1].kind = "quote_redirect"
    /\ prompt[2].kind = "menu"

----------------------------------------------------------------------------
----------------------------------------------------------------------------
----------------------------------------------------------------------------
(* The age step.                                                           *)

\* The user's conversation is at the age step.
AtAgeStep(u) ==
    /\ conversations[u] = PERSONAL_INFO
    /\ Get(user_data[u], "step", "") = "age"

\* int() fails on the text, or gives an integer below 18 or above 100.
NotAcceptedAge(text) ==
    LET parsed == ParseInt(text)
    IN  ~parsed.ok \/ parsed.val < 18 \/ parsed.val > 100

\* C5: at the age step a text that is not an integer, or is an integer below
\* 18 or above 100 (among them "Jane Doe", "17", "101", "150"), leaves the
\* state CollectingInfo, the step 'age' and the user's data unchanged, and is
\* answered by a re-prompt: "numbers only" for a non-number, "between 18 and
\* 100" for a number out of range.
C5_RejectedAgeReprompts ==
    [][\A u \in Users :
          (/\ update'.kind = "text"
           /\ update'.user = u
           /\ AtAgeStep(u)
           /\ \/ update'.data \in {T_JaneDoe, T_17, T_101, T_150}
              \/ NotAcceptedAge(update'.data)) =>
              /\ conversations'[u] = PERSONAL_INFO
              /\ user_data'[u] = user_data[u]
              /\ prompt' = IF update'.data = T_JaneDoe \/ ~ParseInt(update'.data).ok
                           THEN <<Msg("age_numbers_only")>>
                           ELSE <<Msg("age_out_of_range")>>]_vars

\* Scenario B: "150" at the age step of a first flow.
C5_Witness ==
    /\ AtAgeStep("u1")
    /\ update = Text("u1", T_150)
    /\ prompt = <<Msg("age_out_of_range")>>
    /\ DOMAIN user_data["u1"] = {"insurance_type", "step", "name"}

\* C6: at the age step a text that is an integer a with 18 <= a <= 100 is
\* accepted: a is stored as the age, the step becomes 'location' and the
\* location is asked for ("18" stores 18, "100" stores 100); and a stored age
\* always lies in 18..100.
C6_AcceptedAgeStored ==
    /\ [](\A u \in Users :
            Has(user_data[u], "age") => user_data[u]["age"] \in 18..100)
    /\ [][\A u \in Users :
            (/\ update'.kind = "text"
             /\ update'.user = u
             /\ AtAgeStep(u)
             /\ \/ update'.data \in {T_18, T_100}
                \/ ~NotAcceptedAge(update'.data)) =>
                /\ conversations'[u] = PERSONAL_INFO
                /\ user_data'[u] =
                       Put(Put(user_data[u], "age", ParseInt(update'.data).val),
                           "step", "location")
                /\ update'.data = T_18 => user_data'[u]["age"] = 18
                /\ update'.data = T_100 => user_data'[u]["age"] = 100
                /\ prompt' = <<Msg("ask_location")>>]_vars

C6_Witness ==
    /\ conversations["u1"] = PERSONAL_INFO
    /\ update = Text("u1", T_100)
    /\ prompt = <<Msg("ask_location")>>
    /\ user_data["u1"]["age"] = 100
    /\ user_data["u1"]["step"] = "location"

----------------------------------------------------------------------------
(* The quote calculator.                                                   *)

\* The base rates and multipliers (in tenths) as the claim gives them.
C7_BaseRate(c) ==
    CASE c = "auto" -> 800
      [] c = "home" -> 1200
      [] c = "health" -> 300
      [] c = "travel" -> 150
      [] c = "business" -> 2000
      [] OTHER -> 500

C7_Multiplier10(a) ==
    CASE a < 25 -> 13
      [] 25 <= a /\ a < 35 -> 10
      [] 35 <= a /\ a < 55 -> 9
      [] a >= 55 -> 11

\* C7: for every category c and age a, calculate_quote returns
\* annual = floor(baseRate[c] * multiplier(a)) and monthly = floor(annual / 12),
\* a missing age counting as 30.
C7_QuoteFormula ==
    quote.insurance_type # "" =>
        LET a == IF quote.age = <<>> THEN 30 ELSE quote.age[1]
            annual == (C7_BaseRate(quote.insurance_type) * C7_Multiplier10(a)) \div 10
        IN  /\ quote.annual_premium = annual
            /\ quote.monthly_premium = annual \div 12

\* Age 25 is the first age of the 1.0 band.
C7_Witness ==
    quote = [age |-> <<25>>, insurance_type |-> "auto",
             annual_premium |-> 800, monthly_premium |-> 66]

----------------------------------------------------------------------------
(* Scenario A.                                                             *)

ScenarioA ==
    <<Command("u1", "start"), Callback("u1", "auto"), Callback("u1", "get_quote"),
      Text("u1", T_JaneDoe), Text("u1", T_29), Text("u1", T_AustinTX)>>

\* C8: StartFlow, CategorySelected(auto), ActionSelected(get_quote),
\* "Jane Doe", "29", "Austin, TX" from Idle ends in Completed, and the last
\* response is the auto quote with annual premium 800 and monthly premium 66.
C8_ScenarioA ==
    trace.updates = ScenarioA =>
        /\ currentState("u1") = "Completed"
        /\ prompt = <<[kind |-> "quote", insurance_type |-> "auto",
                       quote |-> [name |-> T_JaneDoe, location |-> T_AustinTX,
                                  age |-> 29, monthly |-> 66, annual |-> 800]]>>

C8_Witness ==
    /\ trace.updates = ScenarioA
    /\ currentState("u1") = "Completed"
    /\ prompt[1].kind = "quote"

----------------------------------------------------------------------------
\* C9, for the buttons shown in CategoryActions: every press of get-quote,
\* learn-more, talk-to-agent, back-to-menu or the learn-more screen's "back"
\* is answered by a prompt.
C9_ActionSelectedAnswered ==
    [][\A u \in Users :
          (/\ update'.kind = "callback"
           /\ update'.user = u
           /\ conversations[u] = INSURANCE_TYPE
           /\ update'.data \in {"get_quote", "learn_more", "talk_agent",
                                "back_menu", "back_type"}) =>
              prompt' # <<>>]_vars

----------------------------------------------------------------------------
(* Two users.                                                              *)

\* C11: an update of one user leaves the conversation state, the category,
\* the collected fields and the step of every other user as they were, and
\* the quote a user receives is the one for that user's own category and
\* age.
C11_SessionsIsolated ==
    [][\A u \in Users :
          /\ update'.user # u =>
                 /\ conversations'[u] = conversations[u]
                 /\ ended'[u] = ended[u]
                 /\ user_data'[u] = user_data[u]
                 /\ stored'[u] = stored[u]
          /\ (update'.user = u /\ Len(prompt') = 1 /\ prompt'[1].kind = "quote") =>
                 LET ud == user_data'[u]
                     annual == (C7_BaseRate(ud["insurance_type"])
                                * C7_Multiplier10(ud["age"])) \div 10
                 IN  /\ prompt'[1].insurance_type = ud["insurance_type"]
                     /\ prompt'[1].quote.annual = annual
                     /\ prompt'[1].quote.monthly = annual \div 12]_vars

\* The first user has received the auto quote for age 18 while the second,
\* who chose home and gave age 29, is asked for the location.
C11_Witness ==
    /\ currentState("u1") = "Completed"
    /\ currentState("u2") = "CollectingInfo"
    /\ update.user = "u1"
    /\ Len(prompt) = 1
    /\ prompt[1].kind = "quote"
    /\ prompt[1].insurance_type = "auto"
    /\ prompt[1].quote.annual = 1040
    /\ Get(user_data["u1"], "age", 0) = 18
    /\ Get(user_data["u2"], "insurance_type", "") = "home"
    /\ Get(user_data["u2"], "age", 0) = 29
    /\ Get(user_data["u2"], "step", "") = "location"

----------------------------------------------------------------------------
(* Free text.                                                              *)

C12_QuoteKeywords == {<<"q", "u", "o", "t", "e">>, <<"p", "r", "i", "c", "e">>,
                      <<"c", "o", "s", "t">>, <<"r", "a", "t", "e">>}
C12_ClaimKeywords == {<<"c", "l", "a", "i", "m">>, <<"a", "c", "c", "i", "d", "e", "n", "t">>,
                      <<"d", "a", "m", "a", "g", "e">>}
C12_HelpKeywords == {<<"h", "e", "l", "p">>, <<"s", "u", "p", "p", "o", "r", "t">>,
                     <<"q", "u", "e", "s", "t", "i", "o", "n">>}

C12_Matches(text, keywords) == \E k \in keywords : Contains(Lower(text), k)

\* The response of the earliest bucket the text matches.
C12_Response(text) ==
    CASE C12_Matches(text, C12_QuoteKeywords) -> <<Msg("quote_redirect"), Msg("menu")>>
      [] /\ ~C12_Matches(text, C12_QuoteKeywords)
         /\ C12_Matches(text, C12_ClaimKeywords) -> <<Msg("claims_process")>>
      [] /\ ~C12_Matches(text, C12_QuoteKeywords)
         /\ ~C12_Matches(text, C12_ClaimKeywords)
         /\ C12_Matches(text, C12_HelpKeywords) -> <<Msg("help")>>
      [] OTHER -> <<Msg("fallback")>>

\* C12: a text that reaches handle_message is answered by the response of
\* the first bucket it matches, in the order quote, claim, help, fallback,
\* and by nothing else.
C12_FirstBucketWins ==
    [][\A u \in Users :
          (/\ update'.kind = "text"
           /\ update'.user = u
           /\ conversations[u] # PERSONAL_INFO) =>
              prompt' = C12_Response(update'.data)]_vars

\* "claim quote" matches the claim and the quote bucket and got the quote
\* bucket's response.
C12_Witness ==
    /\ update = Text("u1", <<"c", "l", "a", "i", "m", " ", "q", "u", "o", "t", "e">>)
    /\ prompt = <<Msg("quote_redirect"), Msg("menu")>>

\* C13: free text outside CollectingInfo leaves the conversation state, the
\* category, the collected fields and the step as they were, whichever
\* bucket answers; "I had an accident" in Idle gets the claims text and the
\* session stays Idle.
C13_FreeTextKeepsSession ==
    [][\A u \in Users :
          (/\ update'.kind = "text"
           /\ update'.user = u
           /\ currentState(u) # "CollectingInfo") =>
              /\ conversations'[u] = conversations[u]
              /\ ended'[u] = ended[u]
              /\ user_data'[u] = user_data[u]
              /\ stored'[u] = stored[u]
              /\ (update'.data = T_Accident /\ currentState(u) = "Idle") =>
                     /\ prompt' = <<Msg("claims_process")>>
                     /\ currentState(u)' = "Idle"]_vars

\* Scenario D.
C13_Witness ==
    /\ currentState("u1") = "Idle"
    /\ update = Text("u1", T_Accident)
    /\ prompt = <<Msg("claims_process")>>

----------------------------------------------------------------------------
(* Quote ids.                                                              *)

\* C14: two calls of the quote generation never return the same quote id,
\* also when both fall into the same clock second.
C14_QuoteIdsUnique ==
    Len(quote_ids) = 2 => quote_ids[1] # quote_ids[2]

----------------------------------------------------------------------------
(* The quote of a flow.                                                    *)

\* The step the user's data hold, "none" when they hold none.
step(u) == Get(user_data[u], "step", "none")

\* The premium figures of category c and age a.
C15_Annual(c, a) == (C7_BaseRate(c) * C7_Multiplier10(a)) \div 10

\* C15: the quote of a flow is computed from the category chosen in this
\* flow and the age accepted in this flow, and from nothing else: the
\* category in the user's data is the one of the last menu choice and stays
\* through CategoryActions and CollectingInfo; at the location step the age
\* has been written in this flow; and the text accepted as location (a step
\* of the dialog, not of the clock) is answered by the quote whose premiums
\* are those of that category and age, whatever the name, the location, the
\* clock and the earlier flows were.
C15_PremiumFromCategoryAndAge ==
    [][\A u \in Users :
          /\ (update'.user = u /\ conversations[u] = MAIN_MENU
                               /\ conversations'[u] = INSURANCE_TYPE) =>
                 /\ update'.kind = "callback"
                 /\ user_data'[u]["insurance_type"] = update'.data
          /\ conversations[u] \in {INSURANCE_TYPE, PERSONAL_INFO} =>
                 user_data'[u]["insurance_type"] = user_data[u]["insurance_type"]
          /\ (conversations[u] = PERSONAL_INFO /\ step(u) = "location") =>
                 /\ "age" \in stored[u]
                 /\ user_data'[u]["age"] = user_data[u]["age"]
          /\ (/\ update'.kind = "text"
              /\ update'.user = u
              /\ now' = now
              /\ conversations[u] = PERSONAL_INFO
              /\ step(u) = "location") =>
                 LET c == user_data[u]["insurance_type"]
                     a == user_data[u]["age"]
                 IN  /\ currentState(u)' = "Completed"
                     /\ prompt' = <<[kind |-> "quote", insurance_type |-> c,
                                     quote |-> [name |-> user_data[u]["name"],
                                                location |-> update'.data,
                                                age |-> a,
                                                monthly |-> C15_Annual(c, a) \div 12,
                                                annual |-> C15_Annual(c, a)]]>>]_vars

\* A home quote for age 18 at a later second, after an auto flow for age 29
\* was completed under another name: name and location differ from the
\* usual ones.
C15_Witness ==
    /\ currentState("u1") = "Completed"
    /\ now > 0
    /\ Len(prompt) = 1
    /\ prompt[1].kind = "quote"
    /\ prompt[1].insurance_type = "home"
    /\ prompt[1].quote = [name |-> T_29, location |-> T_Blank, age |-> 18,
                           monthly |-> 130, annual |-> 1560]

----------------------------------------------------------------------------
\* C16: in MainMenu the button "general questions" ends the conversation
\* (EndedEarly) with the informational message, without passing through
\* CategoryActions and without setting a category.
C16_QuestionsEndsEarly ==
    [][\A u \in Users :
          (/\ update'.kind = "callback"
           /\ update'.user = u
           /\ update'.data = "questions"
           /\ conversations[u] = MAIN_MENU) =>
              /\ conversations'[u] = END
              /\ currentState(u)' = "EndedEarly"
              /\ prompt' = <<Msg("ask_question")>>
              /\ user_data'[u] = user_data[u]]_vars

\* Scenario C: no category was ever chosen.
C16_Witness ==
    /\ currentState("u1") = "EndedEarly"
    /\ update = Callback("u1", "questions")
    /\ prompt = <<Msg("ask_question")>>
    /\ ~Has(user_data["u1"], "insurance_type")

----------------------------------------------------------------------------
(* parse_location.                                                         *)

\* The positions of the commas of a text.
C17_Commas(l) == {i \in 1..Len(l) : l[i] = ","}

C17_First(l) == CHOOSE i \in C17_Commas(l) : \A j \in C17_Commas(l) : i <= j

\* The position of the second comma, or the one after the end of the text.
C17_Second(l) ==
    LET later == C17_Commas(l) \ {C17_First(l)}
    IN  IF later = {} THEN Len(l) + 1
        ELSE CHOOSE i \in later : \A j \in later : i <= j

\* C17 (as claimed): the text is split at its first comma only: city is the
\* trimmed text before it, state the whole trimmed text after it; without a
\* comma city is the whole text and state is empty.
C17_SplitOnFirstComma ==
    LET l == parsed_location.location
    IN  IF C17_Commas(l) # {}
        THEN /\ parsed_location.city = Strip(SubSeq(l, 1, C17_First(l) - 1))
             /\ parsed_location.state = Strip(SubSeq(l, C17_First(l) + 1, Len(l)))
        ELSE /\ parsed_location.city = l
             /\ parsed_location.state = <<>>

\* C17 (amended): the text is split at every comma: city is the trimmed text
\* before the first comma, state the trimmed text between the first comma
\* and the second (or the end); what follows a second comma is dropped.
\* Without a comma city is the whole text, untrimmed, and state is empty.
C17_SplitOnEveryComma ==
    LET l == parsed_location.location
    IN  IF C17_Commas(l) # {}
        THEN /\ parsed_location.city = Strip(SubSeq(l, 1, C17_First(l) - 1))
             /\ parsed_location.state =
                    Strip(SubSeq(l, C17_First(l) + 1, C17_Second(l) - 1))
        ELSE /\ parsed_location.city = l
             /\ parsed_location.state = <<>>

C17_Witness ==
    parsed_location = [location |-> T_AustinTXUSA,
                       city |-> <<"A", "u", "s", "t", "i", "n">>,
                       state |-> <<"T", "X">>]

----------------------------------------------------------------------------
\* C18: at the name step a text that is empty or all blanks is rejected,
\* nothing is written and the step stays 'name'; any other text is stored
\* verbatim as the name and the step becomes 'age'.
C18_BlankNameRejected ==
    [][\A u \in Users :
          (/\ update'.kind = "text"
           /\ update'.user = u
           /\ now' = now
           /\ conversations[u] = PERSONAL_INFO
           /\ step(u) = "name") =>
              IF Strip(update'.data) = <<>>
              THEN /\ conversations'[u] = PERSONAL_INFO
                   /\ user_data'[u] = user_data[u]
              ELSE /\ conversations'[u] = PERSONAL_INFO
                   /\ user_data'[u] =
                          Put(Put(user_data[u], "name", update'.data), "step", "age")]_vars

----------------------------------------------------------------------------
----------------------------------------------------------------------------
\* C20: in CategoryActions learn-more and talk-to-agent leave the state and
\* the user's data as they are and show their text; the only update that
\* leads to MainMenu is back-to-menu and the only one that leads to
\* CollectingInfo is get-quote.
C20_InfoActionsStay ==
    [][\A u \in Users :
          (update'.user = u /\ conversations[u] = INSURANCE_TYPE) =>
              /\ update' = Callback(u, "learn_more") =>
                     /\ conversations'[u] = INSURANCE_TYPE
                     /\ user_data'[u] = user_data[u]
                     /\ prompt' = <<[kind |-> "info",
                                     insurance_type |-> user_data[u]["insurance_type"]]>>
              /\ update' = Callback(u, "talk_agent") =>
                     /\ conversations'[u] = INSURANCE_TYPE
                     /\ user_data'[u] = user_data[u]
                     /\ prompt' = <<Msg("agent_contact")>>
              /\ conversations'[u] = MAIN_MENU <=> update' = Callback(u, "back_menu")
              /\ conversations'[u] = PERSONAL_INFO <=> update' = Callback(u, "get_quote")]_vars

\* Learn-more pressed in the CategoryActions of a second flow: the fields of
\* the completed first flow are still there.
C20_Witness ==
    /\ currentState("u1") = "CategoryActions"
    /\ update = Callback("u1", "learn_more")
    /\ prompt = <<[kind |-> "info", insurance_type |-> "auto"]>>
    /\ stored["u1"] = Fields
    /\ Fields \subseteq DOMAIN user_data["u1"]

----------------------------------------------------------------------------
\* C21: in MainMenu a selection that is no category (none of auto, home,
\* health, travel, business, questions), and in CategoryActions an action
\* that is none of get-quote, learn-more, talk-to-agent, back-to-menu, leave
\* the conversation state, the category, the collected fields and the step
\* as they were, so that the dialog goes on from the same state.
C21_UnknownChoiceIsNoOp ==
    [][\A u \in Users :
          (/\ update'.kind = "callback"
           /\ update'.user = u
           /\ \/ /\ conversations[u] = MAIN_MENU
                 /\ update'.data \notin {"auto", "home", "health", "travel",
                                         "business", "questions"}
              \/ /\ conversations[u] = INSURANCE_TYPE
                 /\ update'.data \notin {"get_quote", "learn_more", "talk_agent",
                                         "back_menu"}) =>
              /\ conversations'[u] = conversations[u]
              /\ ended'[u] = ended[u]
              /\ user_data'[u] = user_data[u]
              /\ stored'[u] = stored[u]]_vars

\* An unknown action in the CategoryActions of a second flow: the category
\* and the fields of the first flow are still there.
C21_Witness ==
    /\ currentState("u1") = "CategoryActions"
    /\ update = Callback("u1", "other")
    /\ prompt = <<>>
    /\ stored["u1"] = Fields
    /\ Get(user_data["u1"], "insurance_type", "") = "travel"

----------------------------------------------------------------------------
\* The number of updates a user needs at least to reach a terminal state
\* without cancelling.
C22_Distance(u) ==
    IF Terminal(u) THEN 0
    ELSE IF currentState(u) = "Idle" THEN 2
    ELSE IF currentState(u) = "MainMenu" THEN 1
    ELSE IF currentState(u) = "CategoryActions" THEN 4
    ELSE IF step(u) = "name" THEN 3
    ELSE IF step(u) = "age" THEN 2
    ELSE 1

\* C22: a user in CollectingInfo who eventually sends an acceptable text at
\* each step reaches Completed, unless the user cancels (Cancelled); texts
\* the age step rejects only delay this.  And no state is a dead end: in
\* every state that is not terminal an update is possible that brings the
\* user one update closer to a terminal state.
C22_FlowTerminates ==
    /\ (currentState("u1") = "CollectingInfo")
           ~> (currentState("u1") \in {"Completed", "Cancelled"})
    /\ [](~Terminal("u1") =>
             ENABLED <<NextLive /\ C22_Distance("u1")' < C22_Distance("u1")>>_vars)

\* "17" was rejected at the age step: the user is still asked for the age.
C22_Witness ==
    /\ currentState("u1") = "CollectingInfo"
    /\ step("u1") = "age"
    /\ update = Text("u1", T_17)
    /\ prompt = <<Msg("age_out_of_range")>>

----------------------------------------------------------------------------
\* C23: in a flow run after scenario A (directly, or after a cancel or a way
\* back to the menu) with another category, name, age and location, the
\* quote sent on reaching Completed is the one for the category chosen last
\* and for the name, age and location given in this flow; nothing of it is
\* a left-over of scenario A (auto, "Jane Doe", 29, "Austin, TX").
C23_QuoteUsesThisFlow ==
    [][\A u \in Users :
          (/\ update'.kind = "text"
           /\ update'.user = u
           /\ conversations[u] = PERSONAL_INFO
           /\ conversations'[u] = END) =>
              /\ stored'[u] = Fields
              /\ Len(prompt') = 1
              /\ prompt'[1].kind = "quote"
              /\ LET c == prompt'[1].insurance_type
                     q == prompt'[1].quote
                 IN  /\ c = user_data[u]["insurance_type"]
                     /\ c # "auto"
                     /\ q.name \in SecondTexts
                     /\ q.name # T_JaneDoe
                     /\ q.age = 18
                     /\ q.age # 29
                     /\ q.location = update'.data
                     /\ q.location # T_AustinTX
                     /\ q.annual = C15_Annual(c, q.age)
                     /\ q.monthly = C15_Annual(c, q.age) \div 12]_vars

\* The home quote of a later flow.
C23_Witness ==
    /\ currentState("u1") = "Completed"
    /\ update = Text("u1", T_18)
    /\ prompt = <<[kind |-> "quote", insurance_type |-> "home",
                   quote |-> [name |-> T_Price, location |-> T_18, age |-> 18,
                              monthly |-> 130, annual |-> 1560]]>>

----------------------------------------------------------------------------
C24_Categories == {"auto", "home", "health", "travel", "business"}

\* C24: in CategoryActions and in CollectingInfo the category is set and is
\* one of auto, home, health, travel, business; no message sent is the
\* "Information not available" text, and every quote sent is one for such a
\* category, computed from its base rate and not from the default 500.
C24_CategoryKnown ==
    /\ \A u \in Users :
           conversations[u] \in {INSURANCE_TYPE, PERSONAL_INFO, QUOTE_DETAILS} =>
               /\ Has(user_data[u], "insurance_type")
               /\ user_data[u]["insurance_type"] \in C24_Categories
    /\ \A i \in 1..Len(prompt) :
           /\ prompt[i].kind # "info_not_available"
           /\ prompt[i].kind = "quote" =>
                  /\ prompt[i].insurance_type \in C24_Categories
                  /\ prompt[i].quote.annual =
                         (base_rates[prompt[i].insurance_type]
                          * C7_Multiplier10(prompt[i].quote.age)) \div 10

\* Learn-more on business insurance.
C24_Witness ==
    /\ currentState("u1") = "CategoryActions"
    /\ update = Callback("u1", "learn_more")
    /\ prompt = <<[kind |-> "info", insurance_type |-> "business"]>>
    /\ user_data["u1"]["insurance_type"] = "business"

----------------------------------------------------------------------------
\* C25: for every category, known or not, and every age, also a missing
\* one, the annual and monthly figures of InsuranceBot.generate_quote are
\* the annual_premium and monthly_premium that
\* QuoteCalculator.calculate_quote has returned for the same inputs.
C25_PricingAgrees ==
    quote.insurance_type # "" =>
        LET ud == IF quote.age = <<>> THEN EmptyDict
                  ELSE [k \in {"age"} |-> quote.age[1]]
            q == generate_quote(ud, quote.insurance_type)
        IN  /\ q.annual = quote.annual_premium
            /\ q.monthly = quote.monthly_premium

\* An unknown category and no age: 500 a year on both sides.
C25_Witness ==
    /\ quote = [age |-> <<>>, insurance_type |-> "pet",
                annual_premium |-> 500, monthly_premium |-> 41]
    /\ generate_quote(EmptyDict, "pet").annual = 500

----------------------------------------------------------------------------
====
